---- MODULE Spec2Model ----
(***************************************************************************)
(* Model of the info_class authentication backend: Firebase token          *)
(* validation (auth/firebase_validator.py), role resolution                *)
(* (auth/role_manager.py, config/settings.py), session-token issue and     *)
(* verification (auth/jwt_manager.py) and the three routes of              *)
(* api/auth_routes.py (exchange, me, refresh).                             *)
(*                                                                         *)
(* Conventions.                                                            *)
(*  - A Python value that may be None (or a dict key that may be absent)   *)
(*    is a sequence of length 0 or 1: None is <<>>, the value v is <<v>>.  *)
(*  - A string the code inspects character-wise (an e-mail address) is a   *)
(*    sequence of segments; lower() maps each segment to its lower-case    *)
(*    form and endswith() compares a suffix of segments.                   *)
(*  - An error message is a record [text, detail]: text is the text the    *)
(*    code formats, detail the set of marker phrases that occur in the     *)
(*    str(e) of a foreign exception appended to it.                        *)
(*  - Time is counted in ticks of 1/TicksPerSecond second; a JWT           *)
(*    timestamp is int(datetime.timestamp()), i.e. whole seconds.          *)
(***************************************************************************)
EXTENDS Integers, Sequences, FiniteSets, TLC

VARIABLES
    DEBUG,                      \* settings.DEBUG
    ACCESS_TOKEN_EXPIRE_HOURS,  \* settings.ACCESS_TOKEN_EXPIRE_HOURS
    ADMIN_EMAILS,               \* settings.ADMIN_EMAILS (a Python list)
    ROLE_PERMISSIONS,           \* RoleManager.ROLE_PERMISSIONS (a class attribute)
    now,                        \* the wall clock, in ticks
    ticks,                      \* how often the clock has advanced
    held,                       \* the session token the client holds, or None
    threads,                    \* where each thread calling the role manager stands
    last                        \* what the last request did and returned

vars == <<threads, DEBUG, ACCESS_TOKEN_EXPIRE_HOURS, ADMIN_EMAILS, ROLE_PERMISSIONS, now, ticks, held, last>>

----------------------------------------------------------------------------
(* Bounds of the model *)

TicksPerSecond == 2
MaxTicks       == 3
NumThreads     == 2
AltExpireHours == 48

(* Program constants *)

DefaultExpireHours == 24
DefaultRefreshThresholdHours == 2
SecondsPerHour     == 3600

----------------------------------------------------------------------------
(* Python values *)

None    == <<>>
Some(v) == <<v>>

\* str.lower() of one segment of a string
LowerSegment(a) ==
    CASE a = "Admin"           -> "admin"
      [] a = "Student"         -> "student"
      [] a = "POCHEONIL.HS.KR" -> "pocheonil.hs.kr"
      [] OTHER                 -> a

\* str.lower()
Lower(s) == [i \in DOMAIN s |-> LowerSegment(s[i])]

\* str.endswith(suffix)
EndsWith(s, suffix) ==
    /\ Len(suffix) <= Len(s)
    /\ SubSeq(s, Len(s) - Len(suffix) + 1, Len(s)) = suffix

\* pydantic's EmailStr: the validated address comes back normalised, the local
\* part as given and the domain part (after the "@") in lower case.
EmailStr(e) ==
    LET at == CHOOSE i \in DOMAIN e : e[i] = "@" /\ \A j \in DOMAIN e : e[j] = "@" => j <= i
    IN  [i \in DOMAIN e |-> IF i > at THEN LowerSegment(e[i]) ELSE e[i]]

----------------------------------------------------------------------------
(* config/settings.py *)

SECRET_KEY           == "secret-key"
ALLOWED_EMAIL_DOMAIN == <<"@", "pocheonil.hs.kr">>
InitialAdminEmails   == << <<"admin", "@", "pocheonil.hs.kr">> >>

is_admin_email(email) ==
    \E i \in DOMAIN ADMIN_EMAILS : Lower(ADMIN_EMAILS[i]) = Lower(email)

\* is_allowed_domain comparing case-sensitively
is_allowed_domain_case_sensitive(email) ==
    EndsWith(email, ALLOWED_EMAIL_DOMAIN)

is_allowed_domain(email) ==
    EndsWith(Lower(email), Lower(ALLOWED_EMAIL_DOMAIN))

----------------------------------------------------------------------------
(* Error messages *)

Message(text, detail) == [text |-> text, detail |-> detail]

\* The marker phrases the routes look for that occur in the lower-cased literal.
StaticPhrases(text) ==
    CASE text = "Invalid Firebase token: "       -> {"invalid"}
      [] text = "Expired Firebase token: "       -> {"expired"}
      [] text = "Revoked Firebase token: "       -> {"revoked"}
      [] text = "Email address is not verified"  -> {"not verified"}
      [] text = "Email domain not allowed. Must be from @pocheonil.hs.kr"
                                                 -> {"domain not allowed"}
      [] text = "Token has expired"              -> {"expired"}
      [] text = "Invalid token: Not enough segments"              -> {"invalid"}
      [] text = "Invalid token: Signature verification failed"    -> {"invalid"}
      [] text = "Invalid token: The token is not yet valid (iat)" -> {"invalid"}
      [] text = "Token verification failed: Invalid token issuer"
                                                 -> {"invalid"}
      [] OTHER                                   -> {}

\* phrase in error_message.lower()
Contains(msg, phrase) == phrase \in StaticPhrases(msg.text) \cup msg.detail

Raise(msg) == [ok |-> FALSE, error |-> msg]
Return(v)  == [ok |-> TRUE, value |-> v]

----------------------------------------------------------------------------
(* The identity provider: what firebase_config.verify_id_token answers *)

Truthy(o, empty) == o # None /\ o[1] # empty

\* a or b
Or(a, b, empty) == IF Truthy(a, empty) THEN a ELSE b

Emails ==
    { <<"admin", "@", "pocheonil.hs.kr">>,
      <<"Admin", "@", "POCHEONIL.HS.KR">>,
      <<"student", "@", "pocheonil.hs.kr">>,
      <<"outsider", "@", "other.example">> }

\* The decoded claims of a token the provider accepts. A key that is absent
\* is None, which is what dict.get returns for it.
DecodedTokens ==
    [ uid            : {None, Some(""), Some("u1")},
      email          : {None, Some(<<>>)} \cup {Some(e) : e \in Emails},
      name           : {None, Some(""), Some("Kim")},
      display_name   : {None, Some("Lee")},
      picture        : {None, Some("pic.png")},
      email_verified : {None, Some(FALSE), Some(TRUE)} ]

\* The phrases a foreign exception's str(e) may hold
ForeignDetails == { {}, {"invalid"} }

\* verify_id_token returns the decoded claims or raises
ProviderAnswers ==
    [kind : {"claims"}, claims : DecodedTokens]
    \cup [kind : {"InvalidIdTokenError", "ExpiredIdTokenError",
                  "RevokedIdTokenError", "Exception"},
          detail : ForeignDetails]

----------------------------------------------------------------------------
(* auth/models.py *)

UserInfo(uid, email, name, picture, email_verified) ==
    [ uid            |-> uid,
      email          |-> EmailStr(email),
      name           |-> name,
      picture        |-> picture,
      email_verified |-> email_verified ]

UserWithRole(uid, email, name, picture, email_verified, role, permissions) ==
    [ uid            |-> uid,
      email          |-> EmailStr(email),
      name           |-> name,
      picture        |-> picture,
      email_verified |-> email_verified,
      role           |-> role,
      permissions    |-> permissions ]

ADMIN   == "admin"
STUDENT == "student"
GUEST   == "guest"

----------------------------------------------------------------------------
(* auth/firebase_validator.py *)

\* validate_claims without the email_verified check
validate_claims_unverified_passes(decoded_token) ==
    LET uid   == decoded_token.uid
        email == decoded_token.email
        name  == Or(decoded_token.name, decoded_token.display_name, "")
    IN  IF ~Truthy(uid, "")
        THEN Raise(Message("Token does not contain user ID", {}))
        ELSE IF ~Truthy(email, <<>>)
        THEN Raise(Message("Token does not contain email", {}))
        ELSE IF ~is_allowed_domain(email[1])
        THEN Raise(Message("Email domain not allowed. Must be from @pocheonil.hs.kr", {}))
        ELSE Return(UserInfo(uid[1], email[1], name, decoded_token.picture, TRUE))

\* validate_claims checking the domain before the email_verified flag
validate_claims_domain_first(decoded_token) ==
    LET uid            == decoded_token.uid
        email          == decoded_token.email
        name           == Or(decoded_token.name, decoded_token.display_name, "")
        email_verified == IF decoded_token.email_verified = None
                          THEN FALSE ELSE decoded_token.email_verified[1]
    IN  IF ~Truthy(uid, "")
        THEN Raise(Message("Token does not contain user ID", {}))
        ELSE IF ~Truthy(email, <<>>)
        THEN Raise(Message("Token does not contain email", {}))
        ELSE IF ~is_allowed_domain(email[1])
        THEN Raise(Message("Email domain not allowed. Must be from @pocheonil.hs.kr", {}))
        ELSE IF ~email_verified
        THEN Raise(Message("Email address is not verified", {}))
        ELSE Return(UserInfo(uid[1], email[1], name, decoded_token.picture, email_verified))

\* validate_claims testing the email_verified flag before the presence of the
\* subject id and the e-mail
validate_claims_verified_first(decoded_token) ==
    LET uid            == decoded_token.uid
        email          == decoded_token.email
        name           == Or(decoded_token.name, decoded_token.display_name, "")
        email_verified == IF decoded_token.email_verified = None
                          THEN FALSE ELSE decoded_token.email_verified[1]
    IN  IF ~email_verified
        THEN Raise(Message("Email address is not verified", {}))
        ELSE IF ~Truthy(uid, "")
        THEN Raise(Message("Token does not contain user ID", {}))
        ELSE IF ~Truthy(email, <<>>)
        THEN Raise(Message("Token does not contain email", {}))
        ELSE IF ~is_allowed_domain(email[1])
        THEN Raise(Message("Email domain not allowed. Must be from @pocheonil.hs.kr", {}))
        ELSE Return(UserInfo(uid[1], email[1], name, decoded_token.picture, email_verified))

\* The checks of validate_token on the decoded claims, lines 46-76: the
\* result before the except clauses.
validate_claims(decoded_token) ==
    LET uid            == decoded_token.uid
        email          == decoded_token.email
        name           == Or(decoded_token.name, decoded_token.display_name, "")
        picture        == decoded_token.picture
        email_verified == IF decoded_token.email_verified = None
                          THEN FALSE ELSE decoded_token.email_verified[1]
    IN  IF ~Truthy(uid, "")
        THEN Raise(Message("Token does not contain user ID", {}))
        ELSE IF ~Truthy(email, <<>>)
        THEN Raise(Message("Token does not contain email", {}))
        ELSE IF ~email_verified
        THEN Raise(Message("Email address is not verified", {}))
        ELSE IF ~is_allowed_domain(email[1])
        THEN Raise(Message("Email domain not allowed. Must be from @pocheonil.hs.kr", {}))
        ELSE Return(UserInfo(uid[1], email[1], name, picture, email_verified))

\* except Exception (lines 87-93): the two policy errors pass as they are,
\* every other error is wrapped.
wrap_unexpected(msg) ==
    IF msg.text \in { "Email domain not allowed. Must be from @pocheonil.hs.kr",
                      "Email address is not verified" }
    THEN Raise(msg)
    ELSE Raise(Message("Token validation failed: " \o msg.text, msg.detail))

\* validate_token. With DEBUG on, line 32 calls firebase_config.is_initialized,
\* which FirebaseConfig does not define: the AttributeError is wrapped by the
\* last except clause. ExpiredIdTokenError and RevokedIdTokenError are
\* subclasses of InvalidIdTokenError, so the first except clause takes them.
validate_token(answer) ==
    IF DEBUG
    THEN wrap_unexpected(Message("'FirebaseConfig' object has no attribute 'is_initialized'", {}))
    ELSE IF answer.kind \in {"InvalidIdTokenError", "ExpiredIdTokenError", "RevokedIdTokenError"}
    THEN Raise(Message("Invalid Firebase token: ", answer.detail))
    ELSE IF answer.kind = "Exception"
    THEN wrap_unexpected(Message("", answer.detail))
    ELSE LET r == validate_claims(answer.claims)
         IN  IF r.ok THEN r ELSE wrap_unexpected(r.error)

\* Whether validate_token asks the provider at all
provider_called == ~DEBUG

----------------------------------------------------------------------------
(* auth/role_manager.py *)

\* The table the class body assigns to ROLE_PERMISSIONS
InitialRolePermissions ==
    [ admin   |-> << "read_all_files", "upload_files", "delete_files", "manage_users",
                     "view_submissions", "manage_subjects", "system_admin" >>,
      student |-> << "read_assigned_files", "download_files", "upload_submissions",
                     "view_own_submissions" >>,
      guest   |-> << "read_public_info" >> ]

\* determine_user_role testing the domain before the admin list
determine_user_role_domain_first(user) ==
    LET email == Lower(user.email)
    IN  IF is_allowed_domain(email) THEN STUDENT
        ELSE IF is_admin_email(email) THEN ADMIN
        ELSE GUEST

\* determine_user_role without the guest role
determine_user_role_no_guest(user) ==
    LET email == Lower(user.email)
    IN  IF is_admin_email(email) THEN ADMIN ELSE STUDENT

determine_user_role(user) ==
    LET email == Lower(user.email)
    IN  IF is_admin_email(email) THEN ADMIN
        ELSE IF is_allowed_domain(email) THEN STUDENT
        ELSE GUEST

\* get_role_permissions giving an unknown role the guest's permissions
get_role_permissions_guest_default(role) ==
    IF role \in DOMAIN ROLE_PERMISSIONS THEN ROLE_PERMISSIONS[role] ELSE ROLE_PERMISSIONS[GUEST]

get_role_permissions(role) ==
    IF role \in DOMAIN ROLE_PERMISSIONS THEN ROLE_PERMISSIONS[role] ELSE <<>>

\* create_user_with_role looking up the permissions of the student role
create_user_with_role_student_permissions(user) ==
    LET role        == determine_user_role(user)
        permissions == get_role_permissions(STUDENT)
    IN  UserWithRole(user.uid, user.email, user.name, user.picture,
                     user.email_verified, role, permissions)

create_user_with_role(user) ==
    LET role        == determine_user_role(user)
        permissions == get_role_permissions(role)
    IN  UserWithRole(user.uid, user.email, user.name, user.picture,
                     user.email_verified, role, permissions)

\* add_admin_email comparing and appending the address as it is written
add_admin_email_case_sensitive(email) ==
    IF \E i \in DOMAIN ADMIN_EMAILS : ADMIN_EMAILS[i] = email
    THEN ADMIN_EMAILS
    ELSE Append(ADMIN_EMAILS, email)

\* add_admin_email without the membership test
add_admin_email_always_appends(email) ==
    Append(ADMIN_EMAILS, Lower(email))

\* add_admin_email: the list afterwards
add_admin_email(email) ==
    IF \E i \in DOMAIN ADMIN_EMAILS : Lower(ADMIN_EMAILS[i]) = Lower(email)
    THEN ADMIN_EMAILS
    ELSE Append(ADMIN_EMAILS, Lower(email))

\* remove_admin_email: the list afterwards and the value returned. The loop
\* removes the first entry that equals email ignoring case and returns.
remove_admin_email(email) ==
    LET found == {i \in DOMAIN ADMIN_EMAILS : Lower(ADMIN_EMAILS[i]) = Lower(email)}
        first == CHOOSE i \in found : \A j \in found : i <= j
    IN  IF found = {}
        THEN [list |-> ADMIN_EMAILS, result |-> FALSE]
        ELSE [list   |-> SubSeq(ADMIN_EMAILS, 1, first - 1)
                            \o SubSeq(ADMIN_EMAILS, first + 1, Len(ADMIN_EMAILS)),
              result |-> TRUE]

----------------------------------------------------------------------------
(* The jwt library: HS256 tokens *)

Keys == {SECRET_KEY, "other-key"}

\* The HMAC of the signing input under a key, taken to be collision-free;
\* flipped marks a MAC value with a byte changed.
HS256(payload, key) == [message |-> payload, key |-> key, flipped |-> FALSE]

\* jwt.encode
jwt_encode(payload, key) ==
    [wellformed |-> TRUE, payload |-> payload, signature |-> HS256(payload, key)]

\* int(datetime.timestamp()): whole seconds
timestamp(t) == t \div TicksPerSecond

\* jwt.decode with verify_signature off
jwt_decode_unsigned(token, key, t) ==
    IF ~token.wellformed
    THEN Raise(Message("Not enough segments", {}))
    ELSE IF "iat" \in DOMAIN token.payload /\ token.payload.iat * TicksPerSecond > t
    THEN Raise(Message("The token is not yet valid (iat)", {}))
    ELSE IF "exp" \in DOMAIN token.payload /\ token.payload.exp * TicksPerSecond <= t
    THEN Raise(Message("Signature has expired", {}))
    ELSE Return(token.payload)

\* jwt.decode taking a token to be valid in the second it expires
jwt_decode_exp_strict(token, key, t) ==
    IF ~token.wellformed
    THEN Raise(Message("Not enough segments", {}))
    ELSE IF token.signature # HS256(token.payload, key)
    THEN Raise(Message("Signature verification failed", {}))
    ELSE IF "iat" \in DOMAIN token.payload /\ token.payload.iat * TicksPerSecond > t
    THEN Raise(Message("The token is not yet valid (iat)", {}))
    ELSE IF "exp" \in DOMAIN token.payload
            /\ (token.payload.exp + 1) * TicksPerSecond <= t
    THEN Raise(Message("Signature has expired", {}))
    ELSE Return(token.payload)

\* jwt.decode with verify_signature, verify_exp and verify_iat: the segments
\* are parsed, the signature is checked, then iat (not in the future) and exp
\* (exp <= now is expired) when the payload has them.
jwt_decode(token, key, t) ==
    IF ~token.wellformed
    THEN Raise(Message("Not enough segments", {}))
    ELSE IF token.signature # HS256(token.payload, key)
    THEN Raise(Message("Signature verification failed", {}))
    ELSE IF "iat" \in DOMAIN token.payload /\ token.payload.iat * TicksPerSecond > t
    THEN Raise(Message("The token is not yet valid (iat)", {}))
    ELSE IF "exp" \in DOMAIN token.payload /\ token.payload.exp * TicksPerSecond <= t
    THEN Raise(Message("Signature has expired", {}))
    ELSE Return(token.payload)

----------------------------------------------------------------------------
(* auth/jwt_manager.py *)

ISSUER == "info-class-api"

\* JWTPayload with the whole e-mail address lower-cased
JWTPayload_lowercased(sub, email, name, role, permissions, iat, exp, iss) ==
    [ sub         |-> sub,
      email       |-> Lower(email),
      name        |-> name,
      role        |-> role,
      permissions |-> permissions,
      iat         |-> iat,
      exp         |-> exp,
      iss         |-> iss ]

JWTPayload(sub, email, name, role, permissions, iat, exp, iss) ==
    [ sub         |-> sub,
      email       |-> EmailStr(email),
      name        |-> name,
      role        |-> role,
      permissions |-> permissions,
      iat         |-> iat,
      exp         |-> exp,
      iss         |-> iss ]

\* The lifetime taken in minutes
expiry_of_minutes(t) == t + ACCESS_TOKEN_EXPIRE_HOURS * 60 * TicksPerSecond

\* The lifetime with the time of issue subtracted instead of added
expiry_of_subtracting(t) == ACCESS_TOKEN_EXPIRE_HOURS * SecondsPerHour * TicksPerSecond - t

\* now + timedelta(hours = ACCESS_TOKEN_EXPIRE_HOURS), in ticks
expiry_of(t) == t + ACCESS_TOKEN_EXPIRE_HOURS * SecondsPerHour * TicksPerSecond

\* create_access_token at time t. signing is None when jwt.encode returns and
\* Some(detail) when it raises an exception whose text holds the phrases detail.
create_access_token(user, t, signing) ==
    LET expires_at == expiry_of(t)
        payload    == JWTPayload(user.uid, user.email, user.name, user.role,
                                 user.permissions, timestamp(t),
                                 timestamp(expires_at), ISSUER)
    IN  IF signing # None
        THEN Raise(Message("Failed to create JWT token: ", signing[1]))
        ELSE Return([token |-> jwt_encode(payload, SECRET_KEY), expires_at |-> expires_at])

\* required_claims without the role
required_claims_short == <<"sub", "email", "exp", "iat">>

required_claims == <<"sub", "email", "role", "exp", "iat">>

\* verify_access_token taking an absent issuer for its own
verify_access_token_default_issuer(token, t) ==
    LET d       == jwt_decode(token, SECRET_KEY, t)
        missing == {i \in DOMAIN required_claims : required_claims[i] \notin DOMAIN d.value}
        first   == CHOOSE i \in missing : \A j \in missing : i <= j
    IN  IF ~d.ok
        THEN IF d.error.text = "Signature has expired"
             THEN Raise(Message("Token has expired", {}))
             ELSE Raise(Message("Invalid token: " \o d.error.text, d.error.detail))
        ELSE IF missing # {}
        THEN Raise(Message("Token verification failed: Missing required claim: "
                           \o required_claims[first], {}))
        ELSE IF "iss" \in DOMAIN d.value /\ d.value.iss # ISSUER
        THEN Raise(Message("Token verification failed: Invalid token issuer", {}))
        ELSE Return(d.value)

\* verify_access_token refusing an admin token whose address has left the
\* admin list
verify_access_token_admin_recheck(token, t) ==
    LET d       == jwt_decode(token, SECRET_KEY, t)
        missing == {i \in DOMAIN required_claims : required_claims[i] \notin DOMAIN d.value}
        first   == CHOOSE i \in missing : \A j \in missing : i <= j
    IN  IF ~d.ok
        THEN IF d.error.text = "Signature has expired"
             THEN Raise(Message("Token has expired", {}))
             ELSE Raise(Message("Invalid token: " \o d.error.text, d.error.detail))
        ELSE IF missing # {}
        THEN Raise(Message("Token verification failed: Missing required claim: "
                           \o required_claims[first], {}))
        ELSE IF ~("iss" \in DOMAIN d.value /\ d.value.iss = ISSUER)
        THEN Raise(Message("Token verification failed: Invalid token issuer", {}))
        ELSE IF d.value.role = ADMIN /\ ~is_admin_email(d.value.email)
        THEN Raise(Message("Token verification failed: Role revoked", {}))
        ELSE Return(d.value)

\* verify_access_token at time t
verify_access_token(token, t) ==
    LET d       == jwt_decode(token, SECRET_KEY, t)
        missing == {i \in DOMAIN required_claims : required_claims[i] \notin DOMAIN d.value}
        first   == CHOOSE i \in missing : \A j \in missing : i <= j
    IN  IF ~d.ok
        THEN IF d.error.text = "Signature has expired"
             THEN Raise(Message("Token has expired", {}))
             ELSE Raise(Message("Invalid token: " \o d.error.text, d.error.detail))
        ELSE IF missing # {}
        THEN Raise(Message("Token verification failed: Missing required claim: "
                           \o required_claims[first], {}))
        ELSE IF ~("iss" \in DOMAIN d.value /\ d.value.iss = ISSUER)
        THEN Raise(Message("Token verification failed: Invalid token issuer", {}))
        ELSE Return(d.value)

\* decode_token_without_verification: the payload, or None when the string
\* does not decode. Neither the signature nor a claim is checked.
decode_token_without_verification(token) ==
    IF token.wellformed THEN Some(token.payload) ELSE None

\* get_token_expiration: the exp claim as a time in ticks, or None
get_token_expiration(token) ==
    LET payload == decode_token_without_verification(token)
    IN  IF payload # None /\ DOMAIN payload[1] # {} /\ "exp" \in DOMAIN payload[1]
        THEN Some(payload[1].exp * TicksPerSecond)
        ELSE None

\* refresh_token_if_needed comparing with < instead of <=
refresh_token_if_needed_strict(token, user, refresh_threshold_hours, t, signing) ==
    LET expiration     == get_token_expiration(token)
        threshold_time == t + refresh_threshold_hours * SecondsPerHour * TicksPerSecond
        created        == create_access_token(user, t, signing)
    IN  IF expiration = None
        THEN None
        ELSE IF expiration[1] < threshold_time
        THEN IF created.ok THEN Some(created.value) ELSE None
        ELSE None

\* refresh_token_if_needed returning None for a token verification rejects
refresh_token_if_needed_verifying(token, user, refresh_threshold_hours, t, signing) ==
    LET expiration     == get_token_expiration(token)
        threshold_time == t + refresh_threshold_hours * SecondsPerHour * TicksPerSecond
        created        == create_access_token(user, t, signing)
    IN  IF expiration = None \/ ~verify_access_token(token, t).ok
        THEN None
        ELSE IF expiration[1] <= threshold_time
        THEN IF created.ok THEN Some(created.value) ELSE None
        ELSE None

\* refresh_token_if_needed at time t: Some(token and expiry) or None. An
\* exception of create_access_token is caught and None returned.
refresh_token_if_needed(token, user, refresh_threshold_hours, t, signing) ==
    LET expiration     == get_token_expiration(token)
        threshold_time == t + refresh_threshold_hours * SecondsPerHour * TicksPerSecond
        created        == create_access_token(user, t, signing)
    IN  IF expiration = None
        THEN None
        ELSE IF expiration[1] <= threshold_time
        THEN IF created.ok THEN Some(created.value) ELSE None
        ELSE None

\* dict.get(key, default)
Get(payload, key, default) == IF key \in DOMAIN payload THEN payload[key] ELSE default

----------------------------------------------------------------------------
(* api/auth_routes.py *)

HTTPException(status_code, code, message) ==
    [ok |-> FALSE, status_code |-> status_code, code |-> code, message |-> message]

TokenExchangeResponse(jwt_token, user, expires_at) ==
    [ok |-> TRUE, data |-> [jwt_token |-> jwt_token, user |-> user, expires_at |-> expires_at]]

\* exchange_error without the phrase 'not verified' in its second list
exchange_error_unverified_unlisted(msg) ==
    IF \E phrase \in {"invalid", "expired", "revoked", "malformed"} : Contains(msg, phrase)
    THEN HTTPException(400, "INVALID_TOKEN", msg)
    ELSE IF Contains(msg, "domain not allowed")
    THEN HTTPException(401, "UNAUTHORIZED", msg)
    ELSE IF Contains(msg, "access denied")
    THEN HTTPException(403, "FORBIDDEN", msg)
    ELSE HTTPException(400, "BAD_REQUEST", msg)

\* except ValueError of exchange_firebase_token (lines 85-114)
exchange_error(msg) ==
    IF \E phrase \in {"invalid", "expired", "revoked", "malformed"} : Contains(msg, phrase)
    THEN HTTPException(400, "INVALID_TOKEN", msg)
    ELSE IF \E phrase \in {"domain not allowed", "not verified"} : Contains(msg, phrase)
    THEN HTTPException(401, "UNAUTHORIZED", msg)
    ELSE IF Contains(msg, "access denied")
    THEN HTTPException(403, "FORBIDDEN", msg)
    ELSE HTTPException(400, "BAD_REQUEST", msg)

\* exchange_firebase_token at time t: the calls it made, in order, what each
\* returned, and the response.
exchange_firebase_token(answer, signing, t) ==
    LET user_info      == validate_token(answer)
        user_with_role == create_user_with_role(user_info.value)
        created        == create_access_token(user_with_role, t, signing)
    IN  IF ~user_info.ok
        THEN [ steps     |-> <<"validate_token">>,
               user_info |-> user_info,
               response  |-> exchange_error(user_info.error) ]
        ELSE IF ~created.ok
        THEN [ steps     |-> <<"validate_token", "create_user_with_role",
                               "create_access_token">>,
               user_info |-> user_info,
               response  |-> exchange_error(created.error) ]
        ELSE [ steps     |-> <<"validate_token", "create_user_with_role",
                               "create_access_token">>,
               user_info |-> user_info,
               response  |-> TokenExchangeResponse(created.value.token, user_with_role,
                                                   created.value.expires_at) ]

\* get_current_user without the test for "expired"
get_current_user_expired_as_invalid(token, t) ==
    LET verified == verify_access_token(token, t)
        payload  == verified.value
    IN  IF verified.ok
        THEN [ ok   |-> TRUE,
               data |-> [ uid         |-> Get(payload, "sub", None),
                          email       |-> Get(payload, "email", None),
                          name        |-> Get(payload, "name", None),
                          role        |-> Get(payload, "role", None),
                          permissions |-> Get(payload, "permissions", <<>>),
                          expires_at  |-> Get(payload, "exp", None) ] ]
        ELSE HTTPException(403, "INVALID_TOKEN", verified.error)

\* get_current_user at time t
get_current_user(token, t) ==
    LET verified == verify_access_token(token, t)
        payload  == verified.value
    IN  IF verified.ok
        THEN [ ok   |-> TRUE,
               data |-> [ uid         |-> Get(payload, "sub", None),
                          email       |-> Get(payload, "email", None),
                          name        |-> Get(payload, "name", None),
                          role        |-> Get(payload, "role", None),
                          permissions |-> Get(payload, "permissions", <<>>),
                          expires_at  |-> Get(payload, "exp", None) ] ]
        ELSE IF Contains(verified.error, "expired")
        THEN HTTPException(401, "TOKEN_EXPIRED", verified.error)
        ELSE HTTPException(403, "INVALID_TOKEN", verified.error)

\* refresh_token reading an expired token's claims instead of failing
refresh_token_expired_passes(token, signing, t) ==
    LET v              == verify_access_token(token, t)
        verified       == IF ~v.ok /\ v.error.text = "Token has expired"
                          THEN Return(token.payload) ELSE v
        payload        == verified.value
        user_with_role == UserWithRole(payload.sub, payload.email,
                                       Get(payload, "name", None), None, TRUE,
                                       payload.role, Get(payload, "permissions", <<>>))
        created        == create_access_token(user_with_role, t, signing)
    IN  IF ~verified.ok
        THEN [ steps    |-> <<"verify_access_token">>,
               verified |-> verified,
               response |-> HTTPException(401, "INVALID_TOKEN", verified.error) ]
        ELSE IF ~created.ok
        THEN [ steps    |-> <<"verify_access_token", "create_access_token">>,
               verified |-> verified,
               response |-> HTTPException(401, "INVALID_TOKEN", created.error) ]
        ELSE [ steps    |-> <<"verify_access_token", "create_access_token">>,
               verified |-> verified,
               response |-> TokenExchangeResponse(created.value.token, user_with_role,
                                                  created.value.expires_at) ]

\* refresh_token issuing only when no more than two hours of lifetime remain
refresh_token_only_near_expiry(token, signing, t) ==
    LET verified       == verify_access_token(token, t)
        payload        == verified.value
        user_with_role == UserWithRole(payload.sub, payload.email,
                                       Get(payload, "name", None), None, TRUE,
                                       payload.role, Get(payload, "permissions", <<>>))
        created        == create_access_token(user_with_role, t, signing)
    IN  IF ~verified.ok
        THEN [ steps    |-> <<"verify_access_token">>,
               verified |-> verified,
               response |-> HTTPException(401, "INVALID_TOKEN", verified.error) ]
        ELSE IF payload.exp * TicksPerSecond > t + 2 * SecondsPerHour * TicksPerSecond
        THEN [ steps    |-> <<"verify_access_token">>,
               verified |-> verified,
               response |-> HTTPException(401, "INVALID_TOKEN",
                                          Message("Token refresh not needed", {})) ]
        ELSE IF ~created.ok
        THEN [ steps    |-> <<"verify_access_token", "create_access_token">>,
               verified |-> verified,
               response |-> HTTPException(401, "INVALID_TOKEN", created.error) ]
        ELSE [ steps    |-> <<"verify_access_token", "create_access_token">>,
               verified |-> verified,
               response |-> TokenExchangeResponse(created.value.token, user_with_role,
                                                  created.value.expires_at) ]

\* refresh_token resolving the role of the token's address anew
refresh_token_resolving_role(token, signing, t) ==
    LET verified       == verify_access_token(token, t)
        payload        == verified.value
        user_with_role == create_user_with_role(
                              UserInfo(payload.sub, payload.email,
                                       Get(payload, "name", None), None, TRUE))
        created        == create_access_token(user_with_role, t, signing)
    IN  IF ~verified.ok
        THEN [ steps    |-> <<"verify_access_token">>,
               verified |-> verified,
               response |-> HTTPException(401, "INVALID_TOKEN", verified.error) ]
        ELSE IF ~created.ok
        THEN [ steps    |-> <<"verify_access_token", "create_access_token">>,
               verified |-> verified,
               response |-> HTTPException(401, "INVALID_TOKEN", created.error) ]
        ELSE [ steps    |-> <<"verify_access_token", "create_access_token">>,
               verified |-> verified,
               response |-> TokenExchangeResponse(created.value.token, user_with_role,
                                                  created.value.expires_at) ]

\* refresh_token at time t
refresh_token(token, signing, t) ==
    LET verified       == verify_access_token(token, t)
        payload        == verified.value
        user_with_role == UserWithRole(payload.sub, payload.email,
                                       Get(payload, "name", None), None, TRUE,
                                       payload.role, Get(payload, "permissions", <<>>))
        created        == create_access_token(user_with_role, t, signing)
    IN  IF ~verified.ok
        THEN [ steps    |-> <<"verify_access_token">>,
               verified |-> verified,
               response |-> HTTPException(401, "INVALID_TOKEN", verified.error) ]
        ELSE IF ~created.ok
        THEN [ steps    |-> <<"verify_access_token", "create_access_token">>,
               verified |-> verified,
               response |-> HTTPException(401, "INVALID_TOKEN", created.error) ]
        ELSE [ steps    |-> <<"verify_access_token", "create_access_token">>,
               verified |-> verified,
               response |-> TokenExchangeResponse(created.value.token, user_with_role,
                                                  created.value.expires_at) ]

----------------------------------------------------------------------------
(* What a client can present as a session token *)

ClaimNames == {"sub", "email", "name", "role", "permissions", "iat", "exp", "iss"}

\* The payload without one claim
Without(payload, claim) == [k \in DOMAIN payload \ {claim} |-> payload[k]]

\* The payloads another issuer (or an attacker) derives from an issued one:
\* the same, one claim missing or an issued-at time still to come, and each of
\* these with a foreign issuer.
Rewritten(payload) ==
    LET changed == {payload, [payload EXCEPT !.iat = payload.exp]}
                   \cup {Without(payload, c) : c \in ClaimNames}
    IN  changed \cup {[q EXCEPT !.iss = "other-api"] : q \in {d \in changed : "iss" \in DOMAIN d}}

\* A token with its signature segment changed: a byte of the MAC flipped, the MAC
\* of another key, or a segment that no longer decodes.
Tampered(token) ==
    { [token EXCEPT !.signature.flipped = TRUE],
      [token EXCEPT !.signature.key = "other-key"],
      [token EXCEPT !.wellformed = FALSE] }

\* Every string a client holding `token` presents in the model: the token, a
\* token signed with the secret over a rewritten payload, a tampered token.
Presentable(token) ==
    {jwt_encode(q, SECRET_KEY) : q \in Rewritten(token.payload)} \cup Tampered(token)

SigningOutcomes == {None} \cup {Some(d) : d \in ForeignDetails}

\* The provider answers the token routes' specification draws from
SampleAnswers ==
    { a \in ProviderAnswers :
        /\ a.kind = "claims"
        /\ a.claims.uid = Some("u1")
        /\ a.claims.email \in { Some(<<"Admin", "@", "POCHEONIL.HS.KR">>),
                                Some(<<"student", "@", "pocheonil.hs.kr">>) }
        /\ a.claims.name = (IF a.claims.email = Some(<<"student", "@", "pocheonil.hs.kr">>)
                            THEN None ELSE Some("Kim"))
        /\ a.claims.display_name = None
        /\ a.claims.picture = None
        /\ a.claims.email_verified = Some(TRUE) }

----------------------------------------------------------------------------
(* Threads that call the role manager at the same time. The code takes no
   lock: between two steps of one call another thread may run. A loop over
   the list and a list comprehension read the list element by element, by
   position; list.append and list.remove are single steps. *)

Threads == 1..NumThreads

Idle == [pc |-> "idle"]

----------------------------------------------------------------------------
(* The state machine *)

Init ==
    /\ DEBUG \in BOOLEAN
    /\ ACCESS_TOKEN_EXPIRE_HOURS \in {DefaultExpireHours, AltExpireHours}
    /\ ADMIN_EMAILS = InitialAdminEmails
    /\ ROLE_PERMISSIONS = InitialRolePermissions
    /\ now = 0
    /\ ticks = 0
    /\ held = None
    /\ last = [op |-> "none"]
    /\ threads = [t \in Threads |-> Idle]

\* The clock advances by a tick, or to one tick before a lifetime has passed
Tick(d) ==
    /\ ticks < MaxTicks
    /\ now' = now + d
    /\ ticks' = ticks + 1
    /\ UNCHANGED <<threads, DEBUG, ACCESS_TOKEN_EXPIRE_HOURS, ADMIN_EMAILS, ROLE_PERMISSIONS, held, last>>

ClockSteps == {1, expiry_of(0) - 1}

\* POST /exchange, extending the role's entry of the permission table for
\* the user it signs in
Exchange_marking_permissions(answer, signing) ==
    LET r == exchange_firebase_token(answer, signing, now)
    IN  /\ last' = [ op              |-> "exchange",
                     at              |-> now,
                     answer          |-> answer,
                     admins          |-> ADMIN_EMAILS,
                     provider_called |-> provider_called,
                     steps           |-> r.steps,
                     user_info       |-> r.user_info,
                     response        |-> r.response ]
        /\ ROLE_PERMISSIONS' =
              IF r.response.ok
              THEN [ROLE_PERMISSIONS EXCEPT ![r.response.data.user.role] = Append(@, "signed_in")]
              ELSE ROLE_PERMISSIONS
        /\ UNCHANGED <<threads, DEBUG, ACCESS_TOKEN_EXPIRE_HOURS, ADMIN_EMAILS, now, ticks, held>>

\* POST /exchange
Exchange(answer, signing) ==
    LET r == exchange_firebase_token(answer, signing, now)
    IN  /\ last' = [ op              |-> "exchange",
                     at              |-> now,
                     answer          |-> answer,
                     admins          |-> ADMIN_EMAILS,
                     provider_called |-> provider_called,
                     steps           |-> r.steps,
                     user_info       |-> r.user_info,
                     response        |-> r.response ]
        /\ UNCHANGED <<threads, DEBUG, ACCESS_TOKEN_EXPIRE_HOURS, ADMIN_EMAILS, ROLE_PERMISSIONS, now, ticks, held>>

\* JWTManager.verify_access_token
Verify(token) ==
    /\ last' = [ op     |-> "verify",
                 at     |-> now,
                 token  |-> token,
                 result |-> verify_access_token(token, now) ]
    /\ UNCHANGED <<threads, DEBUG, ACCESS_TOKEN_EXPIRE_HOURS, ADMIN_EMAILS, ROLE_PERMISSIONS, now, ticks, held>>

\* GET /me
Me(token) ==
    /\ last' = [ op       |-> "me",
                 at       |-> now,
                 token    |-> token,
                 response |-> get_current_user(token, now) ]
    /\ UNCHANGED <<threads, DEBUG, ACCESS_TOKEN_EXPIRE_HOURS, ADMIN_EMAILS, ROLE_PERMISSIONS, now, ticks, held>>

\* POST /refresh
Refresh(token, signing) ==
    LET r == refresh_token(token, signing, now)
    IN  /\ last' = [ op       |-> "refresh",
                     at       |-> now,
                     token    |-> token,
                     steps    |-> r.steps,
                     verified |-> r.verified,
                     response |-> r.response ]
        /\ UNCHANGED <<threads, DEBUG, ACCESS_TOKEN_EXPIRE_HOURS, ADMIN_EMAILS, ROLE_PERMISSIONS, now, ticks, held>>

\* The client keeps the session token of the response it just got
Store ==
    /\ last.op \in {"exchange", "refresh"}
    /\ last.response.ok
    /\ held' = Some(last.response.data.jwt_token)
    /\ UNCHANGED <<threads, DEBUG, ACCESS_TOKEN_EXPIRE_HOURS, ADMIN_EMAILS, ROLE_PERMISSIONS, now, ticks, last>>

\* RoleManager.add_admin_email
AddAdmin(email) ==
    /\ ADMIN_EMAILS' = add_admin_email(email)
    /\ last' = [op |-> "add_admin_email", email |-> email, admins |-> ADMIN_EMAILS]
    /\ UNCHANGED <<threads, DEBUG, ACCESS_TOKEN_EXPIRE_HOURS, ROLE_PERMISSIONS, now, ticks, held>>

\* RoleManager.remove_admin_email
RemoveAdmin(email) ==
    LET r == remove_admin_email(email)
    IN  /\ ADMIN_EMAILS' = r.list
        /\ last' = [ op     |-> "remove_admin_email",
                     email  |-> email,
                     admins |-> ADMIN_EMAILS,
                     result |-> r.result ]
        /\ UNCHANGED <<threads, DEBUG, ACCESS_TOKEN_EXPIRE_HOURS, ROLE_PERMISSIONS, now, ticks, held>>

\* RoleManager.create_user_with_role for a user with the given address
ResolveRole(email) ==
    LET user == UserInfo("u1", email, None, None, TRUE)
    IN  /\ last' = [ op     |-> "create_user_with_role",
                     email  |-> email,
                     admins |-> ADMIN_EMAILS,
                     role   |-> determine_user_role(user),
                     user   |-> create_user_with_role(user) ]
        /\ UNCHANGED <<threads, DEBUG, ACCESS_TOKEN_EXPIRE_HOURS, ADMIN_EMAILS, ROLE_PERMISSIONS, now, ticks, held>>

\* The role names get_role_permissions is asked for: the three roles and two
\* strings that are no role
RoleNames == {ADMIN, STUDENT, GUEST, "teacher", ""}

\* RoleManager.get_role_permissions
GetRolePermissions(role) ==
    /\ last' = [ op     |-> "get_role_permissions",
                 role   |-> role,
                 result |-> get_role_permissions(role) ]
    /\ UNCHANGED <<threads, DEBUG, ACCESS_TOKEN_EXPIRE_HOURS, ADMIN_EMAILS, ROLE_PERMISSIONS, now, ticks, held>>

\* The provider answers the role specification draws from: every address,
\* verified or not
RoleAnswers ==
    { a \in ProviderAnswers :
        /\ a.kind = "claims"
        /\ a.claims.uid = Some("u1")
        /\ a.claims.email \in {Some(e) : e \in Emails}
        /\ a.claims.name = None
        /\ a.claims.display_name = None
        /\ a.claims.picture = None
        /\ a.claims.email_verified \in {Some(TRUE), Some(FALSE)} }

\* Role resolution and the exchange route while the admin list changes
NextRoles ==
    \/ \E email \in Emails : AddAdmin(email)
    \/ \E email \in Emails : RemoveAdmin(email)
    \/ \E email \in Emails : ResolveRole(email)
    \/ \E role \in RoleNames : GetRolePermissions(role)
    \/ \E answer \in RoleAnswers : Exchange(answer, None)

SpecRoles == Init /\ [][NextRoles]_vars

\* The addresses added to and removed from the admin list while tokens live
LifetimeAdmins == { <<"Admin", "@", "POCHEONIL.HS.KR">>, <<"student", "@", "pocheonil.hs.kr">> }

\* An issued token over time, while tokens are issued and refreshed and the
\* admin list changes
NextLifetime ==
    \/ \E d \in ClockSteps : Tick(d)
    \/ \E answer \in SampleAnswers : Exchange(answer, None)
    \/ Store
    \/ held # None /\ Verify(held[1])
    \/ held # None /\ Refresh(held[1], None)
    \/ \E email \in LifetimeAdmins : AddAdmin(email)
    \/ \E email \in LifetimeAdmins : RemoveAdmin(email)

SpecLifetime == Init /\ [][NextLifetime]_vars

\* JWTManager.refresh_token_if_needed
RefreshIfNeeded(token, user, refresh_threshold_hours, signing) ==
    /\ last' = [ op        |-> "refresh_token_if_needed",
                 at        |-> now,
                 token     |-> token,
                 user      |-> user,
                 threshold |-> refresh_threshold_hours,
                 signing   |-> signing,
                 result    |-> refresh_token_if_needed(token, user, refresh_threshold_hours,
                                                       now, signing) ]
    /\ UNCHANGED <<threads, DEBUG, ACCESS_TOKEN_EXPIRE_HOURS, ADMIN_EMAILS, ROLE_PERMISSIONS, now, ticks, held>>

\* The tokens refresh_token_if_needed is called with: the held token, the
\* token with its signature segment changed, and a token without the exp claim
IfNeededTokens(token) ==
    {token, jwt_encode(Without(token.payload, "exp"), SECRET_KEY)} \cup Tampered(token)

\* The users refresh_token_if_needed is called with
SampleUsers ==
    { create_user_with_role(validate_claims(a.claims).value) : a \in SampleAnswers }

\* The thresholds, in hours: none, the default, the configured lifetime
Thresholds == {0, DefaultRefreshThresholdHours, ACCESS_TOKEN_EXPIRE_HOURS}

\* The conditional refresh of a held token over time
NextRefreshIfNeeded ==
    \/ \E d \in ClockSteps : Tick(d)
    \/ \E answer \in SampleAnswers : Exchange(answer, None)
    \/ Store
    \/ held # None /\ \E token \in IfNeededTokens(held[1]), user \in SampleUsers,
                           hours \in Thresholds, signing \in {None, Some({})} :
                         RefreshIfNeeded(token, user, hours, signing)

SpecRefreshIfNeeded == Init /\ [][NextRefreshIfNeeded]_vars

\* The list the threads' calls started from: the admin list when the first of
\* them was made
Base ==
    IF \E u \in Threads : threads[u] # Idle
    THEN threads[CHOOSE u \in Threads : threads[u] # Idle].base
    ELSE ADMIN_EMAILS

\* The calls a thread makes: add_admin_email, remove_admin_email and
\* determine_user_role
ThreadOps == {"add_admin_email", "remove_admin_email", "determine_user_role"}

\* Thread t enters op with email. add_admin_email and is_admin_email start a
\* list comprehension over the admin list, remove_admin_email a for loop.
Call(t, op, email) ==
    /\ threads[t] = Idle
    /\ threads' = [threads EXCEPT ![t] =
                      [ pc      |-> IF op = "remove_admin_email" THEN "for" ELSE "comprehension",
                        op      |-> op,
                        email   |-> email,
                        base    |-> Base,
                        i       |-> 1,
                        lowered |-> <<>> ]]
    /\ UNCHANGED <<DEBUG, ACCESS_TOKEN_EXPIRE_HOURS, ADMIN_EMAILS, ROLE_PERMISSIONS, now, ticks, held, last>>

\* Thread t has returned result from its call
Returned(t, result) ==
    [ pc     |-> "done",
      op     |-> threads[t].op,
      email  |-> threads[t].email,
      base   |-> threads[t].base,
      result |-> result ]

\* One step of [admin.lower() for admin in ADMIN_EMAILS] in thread t: the
\* iterator reads the entry at its position of the list as it is now, or
\* ends when its position is past the end of the list as it is now.
Comprehension(t) ==
    [threads[t] EXCEPT !.i = @ + 1, !.lowered = Append(@, Lower(ADMIN_EMAILS[threads[t].i]))]

\* add_admin_email in thread t, up to the membership test
AddTest(t) ==
    /\ threads[t].pc = "comprehension"
    /\ threads[t].op = "add_admin_email"
    /\ threads' = [threads EXCEPT ![t] =
                      IF threads[t].i <= Len(ADMIN_EMAILS)
                      THEN Comprehension(t)
                      ELSE IF \E j \in DOMAIN threads[t].lowered :
                                  threads[t].lowered[j] = Lower(threads[t].email)
                           THEN Returned(t, None)
                           ELSE [threads[t] EXCEPT !.pc = "append"]]
    /\ UNCHANGED <<DEBUG, ACCESS_TOKEN_EXPIRE_HOURS, ADMIN_EMAILS, ROLE_PERMISSIONS, now, ticks, held, last>>

\* add_admin_email in thread t: ADMIN_EMAILS.append(email.lower())
AddAppend(t) ==
    /\ threads[t].pc = "append"
    /\ ADMIN_EMAILS' = Append(ADMIN_EMAILS, Lower(threads[t].email))
    /\ threads' = [threads EXCEPT ![t] = Returned(t, None)]
    /\ UNCHANGED <<DEBUG, ACCESS_TOKEN_EXPIRE_HOURS, ROLE_PERMISSIONS, now, ticks, held, last>>

\* remove_admin_email in thread t: one turn of the for loop over the list
RemoveLoop(t) ==
    /\ threads[t].pc = "for"
    /\ threads' = [threads EXCEPT ![t] =
                      IF threads[t].i > Len(ADMIN_EMAILS)
                      THEN Returned(t, FALSE)
                      ELSE IF Lower(ADMIN_EMAILS[threads[t].i]) = Lower(threads[t].email)
                           THEN [ pc          |-> "remove",
                                  op          |-> threads[t].op,
                                  email       |-> threads[t].email,
                                  base        |-> threads[t].base,
                                  admin_email |-> ADMIN_EMAILS[threads[t].i] ]
                           ELSE [threads[t] EXCEPT !.i = @ + 1]]
    /\ UNCHANGED <<DEBUG, ACCESS_TOKEN_EXPIRE_HOURS, ADMIN_EMAILS, ROLE_PERMISSIONS, now, ticks, held, last>>

\* remove_admin_email in thread t: ADMIN_EMAILS.remove(admin_email), which
\* takes out the first entry equal to admin_email and raises ValueError, for
\* which the method returns False, when there is none.
RemoveCall(t) ==
    /\ threads[t].pc = "remove"
    /\ LET found == {j \in DOMAIN ADMIN_EMAILS : ADMIN_EMAILS[j] = threads[t].admin_email}
           first == CHOOSE j \in found : \A k \in found : j <= k
       IN  IF found = {}
           THEN /\ ADMIN_EMAILS' = ADMIN_EMAILS
                /\ threads' = [threads EXCEPT ![t] = Returned(t, FALSE)]
           ELSE /\ ADMIN_EMAILS' = SubSeq(ADMIN_EMAILS, 1, first - 1)
                                      \o SubSeq(ADMIN_EMAILS, first + 1, Len(ADMIN_EMAILS))
                /\ threads' = [threads EXCEPT ![t] = Returned(t, TRUE)]
    /\ UNCHANGED <<DEBUG, ACCESS_TOKEN_EXPIRE_HOURS, ROLE_PERMISSIONS, now, ticks, held, last>>

\* determine_user_role in thread t: is_admin_email's comprehension, then the
\* membership test and the domain test
ResolveRead(t) ==
    /\ threads[t].pc = "comprehension"
    /\ threads[t].op = "determine_user_role"
    /\ threads' = [threads EXCEPT ![t] =
                      IF threads[t].i <= Len(ADMIN_EMAILS)
                      THEN Comprehension(t)
                      ELSE IF \E j \in DOMAIN threads[t].lowered :
                                  threads[t].lowered[j] = Lower(threads[t].email)
                           THEN Returned(t, ADMIN)
                           ELSE IF is_allowed_domain(Lower(threads[t].email))
                                THEN Returned(t, STUDENT)
                                ELSE Returned(t, GUEST)]
    /\ UNCHANGED <<DEBUG, ACCESS_TOKEN_EXPIRE_HOURS, ADMIN_EMAILS, ROLE_PERMISSIONS, now, ticks, held, last>>

\* The addresses the threads call with
ThreadEmails == LifetimeAdmins \cup {<<"outsider", "@", "other.example">>}

\* The admin list is set up by calls made one after the other; then the
\* threads make one call each, their steps interleaved
NextConcurrent ==
    \/ (\A t \in Threads : threads[t] = Idle) /\ \E email \in LifetimeAdmins : AddAdmin(email)
    \/ (\A t \in Threads : threads[t] = Idle) /\ \E email \in LifetimeAdmins : RemoveAdmin(email)
    \/ \E t \in Threads, op \in ThreadOps, email \in ThreadEmails : Call(t, op, email)
    \/ \E t \in Threads : AddTest(t)
    \/ \E t \in Threads : AddAppend(t)
    \/ \E t \in Threads : RemoveLoop(t)
    \/ \E t \in Threads : RemoveCall(t)
    \/ \E t \in Threads : ResolveRead(t)

SpecConcurrent == Init /\ [][NextConcurrent]_vars

\* The routes and helpers that read tokens, while the admin list changes
NextFrame ==
    \/ NextLifetime
    \/ held # None /\ Me(held[1])
    \/ held # None /\ \E user \in SampleUsers :
                         RefreshIfNeeded(held[1], user, DefaultRefreshThresholdHours, None)

SpecFrame == Init /\ [][NextFrame]_vars

\* The exchange route on every answer of the provider
NextExchange ==
    \E answer \in ProviderAnswers, signing \in SigningOutcomes : Exchange(answer, signing)

SpecExchange == Init /\ [][NextExchange]_vars

\* The token routes over time
Next ==
    \/ \E d \in ClockSteps : Tick(d)
    \/ \E answer \in SampleAnswers : Exchange(answer, None)
    \/ Store
    \/ held # None /\ \E p \in Presentable(held[1]) : Verify(p)
    \/ held # None /\ \E p \in Presentable(held[1]) : Me(p)
    \/ held # None /\ \E p \in Presentable(held[1]), signing \in SigningOutcomes :
                         Refresh(p, signing)

Spec == Init /\ [][Next]_vars

----------------------------------------------------------------------------
(* Properties *)

Range(f) == {f[i] : i \in DOMAIN f}

\* Whether step a occurs in steps, and before every occurrence of b
Precedes(steps, a, b) ==
    \A j \in DOMAIN steps : steps[j] = b => \E i \in 1..(j - 1) : steps[i] = a

\* The reasons for which validation is to fail: the provider rejects the token,
\* the subject id or the e-mail is missing, the e-mail is not verified, the
\* e-mail is outside the allowed domain.
MustNotValidate(answer) ==
    \/ answer.kind # "claims"
    \/ answer.claims.uid \in {None, Some("")}
    \/ answer.claims.email \in {None, Some(<<>>)}
    \/ answer.claims.email_verified # Some(TRUE)
    \/ ~EndsWith(Lower(answer.claims.email[1]), <<"@", "pocheonil.hs.kr">>)

\* C1: in every exchange validation runs first, role resolution runs only
\* after validation has succeeded and the token is issued only after role
\* resolution; when validation fails for any of its reasons no role is
\* resolved, no token is issued and the validation failure is what the caller
\* gets.
C1_ExchangeShortCircuits ==
    last.op = "exchange" =>
        /\ last.steps[1] = "validate_token"
        /\ Precedes(last.steps, "validate_token", "create_user_with_role")
        /\ Precedes(last.steps, "create_user_with_role", "create_access_token")
        /\ "create_user_with_role" \in Range(last.steps) => last.user_info.ok
        /\ MustNotValidate(last.answer) => ~last.user_info.ok
        /\ ~last.user_info.ok =>
              /\ last.steps = <<"validate_token">>
              /\ ~last.response.ok
              /\ last.response.message = last.user_info.error

\* C1 witness: an exchange of an accepted token with an unverified e-mail
\* stopped after validation and failed.
C1_Witness ==
    /\ last.op = "exchange"
    /\ last.provider_called
    /\ last.answer.kind = "claims"
    /\ last.answer.claims.uid = Some("u1")
    /\ last.answer.claims.email = Some(<<"outsider", "@", "other.example">>)
    /\ last.answer.claims.email_verified = Some(FALSE)
    /\ last.steps = <<"validate_token">>
    /\ ~last.response.ok

\* The signature the secret gives the token's payload
Genuine(token) ==
    [token EXCEPT !.wellformed = TRUE, !.signature = HS256(token.payload, SECRET_KEY)]

\* C2: a refresh of a token that verification rejects fails with code
\* INVALID_TOKEN and issues nothing.
C2_RefreshRejectsInvalid ==
    (last.op = "refresh" /\ ~verify_access_token(last.token, last.at).ok) =>
        /\ ~last.response.ok
        /\ last.response.code = "INVALID_TOKEN"
        /\ "create_access_token" \notin Range(last.steps)

\* C2 witness: a refresh of an expired, correctly signed token failed.
C2_Witness ==
    /\ last.op = "refresh"
    /\ last.token = Genuine(last.token)
    /\ "exp" \in DOMAIN last.token.payload
    /\ last.token.payload.exp * TicksPerSecond <= last.at
    /\ last.verified = Raise(Message("Token has expired", {}))
    /\ last.response.code = "INVALID_TOKEN"

\* C3: verification returns claims only for a token whose signature is the
\* secret's over its payload; a token that differs in its signature segment
\* from one verification accepts is rejected with an invalid-token error.
C3_TamperDetected ==
    last.op = "verify" =>
        /\ last.result.ok => last.token = Genuine(last.token)
        /\ (last.token # Genuine(last.token)
              /\ verify_access_token(Genuine(last.token), last.at).ok) =>
             /\ ~last.result.ok
             /\ last.result.error.text \in
                   { "Invalid token: Signature verification failed",
                     "Invalid token: Not enough segments" }

\* C3 witness: a token with a flipped signature byte, whose original verifies,
\* was rejected.
C3_Witness ==
    /\ last.op = "verify"
    /\ last.token.signature.flipped
    /\ verify_access_token(Genuine(last.token), last.at).ok
    /\ last.result = Raise(Message("Invalid token: Signature verification failed", {}))

\* Whether the last request was a successful exchange or refresh
Issued == last.op \in {"exchange", "refresh"} /\ last.response.ok

\* C4: a token the server issued fails verification with "Token has expired"
\* at every time from its exp claim on, and verifies at every time before it.
\* The exp claim is in whole seconds.
C4_ExpiryBoundary ==
    (last.op = "verify" /\ held # None /\ last.token = held[1]) =>
        /\ last.at >= last.token.payload.exp * TicksPerSecond =>
              last.result = Raise(Message("Token has expired", {}))
        /\ last.at < last.token.payload.exp * TicksPerSecond => last.result.ok

\* C4 witness: the issued token was verified in the very second it expires,
\* and was rejected as expired.
C4_Witness ==
    /\ last.op = "verify"
    /\ held # None
    /\ last.token = held[1]
    /\ last.at = last.token.payload.exp * TicksPerSecond
    /\ last.result = Raise(Message("Token has expired", {}))

\* C5: the token issued for a user verifies, at the time of issue and up to
\* the last tick before its expiry, to claims whose subject, e-mail, role and
\* permissions are the user's.
C5_RoundTrip ==
    Issued =>
        LET u     == last.response.data.user
            token == last.response.data.jwt_token
        IN  \A t \in {last.at, token.payload.exp * TicksPerSecond - 1} :
                LET v == verify_access_token(token, t)
                IN  /\ v.ok
                    /\ v.value.sub = u.uid
                    /\ v.value.email = u.email
                    /\ v.value.role = u.role
                    /\ v.value.permissions = u.permissions

\* C5 witness: a token was issued for an administrator whose address has an
\* upper-case letter, some time after the start.
C5_Witness ==
    /\ Issued
    /\ last.at > 0
    /\ last.response.data.user.email = <<"Admin", "@", "pocheonil.hs.kr">>
    /\ last.response.data.user.role = "admin"
    /\ Len(last.response.data.user.permissions) = 7

\* C6: an issued token carries exactly the claims sub, email, name, role,
\* permissions, iat, exp and iss; iat is the time of issue and exp the
\* expiry returned to the caller, both in whole seconds; exp is iat plus the
\* configured lifetime, which by default is no more than 86400 seconds; iss is
\* "info-class-api"; the expiry returned is the time of issue plus the lifetime.
C6_IssuedClaims ==
    Issued =>
        LET p == last.response.data.jwt_token.payload
        IN  /\ DOMAIN p = {"sub", "email", "name", "role", "permissions", "iat", "exp", "iss"}
            /\ p.iat = last.at \div TicksPerSecond
            /\ p.exp = p.iat + ACCESS_TOKEN_EXPIRE_HOURS * 3600
            /\ ACCESS_TOKEN_EXPIRE_HOURS = 24 => p.exp - p.iat <= 86400
            /\ p.iss = "info-class-api"
            /\ last.response.data.expires_at
                  = last.at + ACCESS_TOKEN_EXPIRE_HOURS * 3600 * TicksPerSecond
            /\ last.response.data.expires_at \div TicksPerSecond = p.exp

\* C6 witness: a token was issued under the default lifetime at a time that is
\* not a whole second.
C6_Witness ==
    /\ Issued
    /\ ACCESS_TOKEN_EXPIRE_HOURS = 24
    /\ last.at % TicksPerSecond # 0
    /\ last.response.data.jwt_token.payload.exp = 86400

\* Whether the token is correctly signed and has not expired at time t
SignedAndUnexpired(token, t) ==
    /\ token = Genuine(token)
    /\ "exp" \in DOMAIN token.payload => t < token.payload.exp * TicksPerSecond

\* C7: verification rejects every token that lacks one of the claims sub,
\* email, role, exp, iat, also when it is correctly signed and not expired.
C7_RequiredClaims ==
    (last.op = "verify"
       /\ \E c \in {"sub", "email", "role", "exp", "iat"} : c \notin DOMAIN last.token.payload)
    => ~last.result.ok

\* C7 witness: a correctly signed, unexpired token without the role claim was
\* rejected for the missing claim.
C7_Witness ==
    /\ last.op = "verify"
    /\ SignedAndUnexpired(last.token, last.at)
    /\ DOMAIN last.token.payload = ClaimNames \ {"role"}
    /\ last.result = Raise(Message("Token verification failed: Missing required claim: role", {}))

\* Whether the token's issuer claim is absent or is not "info-class-api"
ForeignIssuer(token) ==
    "iss" \in DOMAIN token.payload => token.payload.iss # "info-class-api"

\* C8 as stated: every correctly signed, unexpired token whose issuer is absent
\* or foreign is rejected with the invalid-issuer failure.
C8_Original ==
    (last.op = "verify" /\ SignedAndUnexpired(last.token, last.at) /\ ForeignIssuer(last.token))
    => last.result = Raise(Message("Token verification failed: Invalid token issuer", {}))

\* C8 amended: every correctly signed, unexpired token that carries the claims
\* sub, email, role, exp and iat, whose iat is not in the future and whose issuer
\* is absent or foreign is rejected with the invalid-issuer failure.
C8_InvalidIssuer ==
    (last.op = "verify" /\ SignedAndUnexpired(last.token, last.at) /\ ForeignIssuer(last.token)
       /\ {"sub", "email", "role", "exp", "iat"} \subseteq DOMAIN last.token.payload
       /\ last.token.payload.iat * TicksPerSecond <= last.at)
    => last.result = Raise(Message("Token verification failed: Invalid token issuer", {}))

\* C8 witness: complete, correctly signed, unexpired tokens were rejected for
\* their issuer, here one without the iss claim.
C8_Witness ==
    /\ last.op = "verify"
    /\ SignedAndUnexpired(last.token, last.at)
    /\ DOMAIN last.token.payload = ClaimNames \ {"iss"}
    /\ last.result = Raise(Message("Token verification failed: Invalid token issuer", {}))

\* Whether the provider was asked and accepted the token
Accepted == last.op = "exchange" /\ last.provider_called /\ last.answer.kind = "claims"

C10_Original ==
    (Accepted /\ last.answer.claims.email_verified = Some(FALSE))
    => last.user_info = Raise(Message("Email address is not verified", {}))

\* C10 amended: an accepted token that has a non-empty subject id and a
\* non-empty e-mail and whose email_verified flag is false fails validation
\* with "Email address is not verified", whatever the e-mail's domain and
\* whether or not it is on the admin list.
C10_UnverifiedEmail ==
    (Accepted /\ last.answer.claims.email_verified = Some(FALSE)
       /\ last.answer.claims.uid \notin {None, Some("")}
       /\ last.answer.claims.email \notin {None, Some(<<>>)})
    => last.user_info = Raise(Message("Email address is not verified", {}))

\* C10 witness: the unverified address of an administrator was refused.
C10_Witness ==
    /\ Accepted
    /\ last.answer.claims.email_verified = Some(FALSE)
    /\ last.answer.claims.uid = Some("u1")
    /\ last.answer.claims.email = Some(<<"admin", "@", "pocheonil.hs.kr">>)
    /\ is_admin_email(last.answer.claims.email[1])
    /\ last.user_info = Raise(Message("Email address is not verified", {}))
    /\ ~last.response.ok

\* Whether the claims lack a subject id or an e-mail
LacksIdentity(claims) ==
    claims.uid \in {None, Some("")} \/ claims.email \in {None, Some(<<>>)}

C12_FailureCodes ==
    (last.op = "exchange" /\ last.provider_called) =>
        /\ last.answer.kind \in {"InvalidIdTokenError", "ExpiredIdTokenError",
                                 "RevokedIdTokenError"} =>
              /\ ~last.response.ok
              /\ last.response.status_code = 400
              /\ last.response.code = "INVALID_TOKEN"
        /\ (last.answer.kind = "claims" /\ ~LacksIdentity(last.answer.claims)
              /\ last.answer.claims.email_verified # Some(TRUE)) =>
              /\ ~last.response.ok
              /\ last.response.status_code = 401
              /\ last.response.code = "UNAUTHORIZED"
        /\ (last.answer.kind = "claims" /\ ~LacksIdentity(last.answer.claims)
              /\ last.answer.claims.email_verified = Some(TRUE)
              /\ ~EndsWith(Lower(last.answer.claims.email[1]), <<"@", "pocheonil.hs.kr">>)) =>
              /\ ~last.response.ok
              /\ last.response.status_code = 401
              /\ last.response.code = "UNAUTHORIZED"
        /\ ~last.user_info.ok =>
              /\ last.user_info.error.text = "Invalid Firebase token: "
                    => last.response.code = "INVALID_TOKEN"
              /\ last.user_info.error.text
                    \in { "Email address is not verified",
                          "Email domain not allowed. Must be from @pocheonil.hs.kr" }
                    => last.response.code = "UNAUTHORIZED"

\* C12 witness: a revoked token was refused with INVALID_TOKEN though the
\* provider's own text holds none of the phrases.
C12_Witness ==
    /\ last.op = "exchange"
    /\ last.provider_called
    /\ last.answer.kind = "RevokedIdTokenError"
    /\ last.answer.detail = {}
    /\ last.response.code = "INVALID_TOKEN"

\* Whether the address equals an entry of the list ignoring case
OnList(email, admins) == \E i \in DOMAIN admins : Lower(admins[i]) = Lower(email)

\* Whether the address ends with the allowed domain ignoring case
InDomain(email) == EndsWith(Lower(email), <<"@", "pocheonil.hs.kr">>)

\* C13: role resolution gives every address exactly one of the three roles:
\* admin exactly for the addresses that equal an entry of the admin list
\* ignoring case, student exactly for the other addresses that end with the
\* allowed domain ignoring case, guest exactly for the rest.
C13_RolesExhaustive ==
    last.op = "create_user_with_role" =>
        /\ last.role \in {"admin", "student", "guest"}
        /\ last.role = "admin" <=> OnList(last.email, last.admins)
        /\ last.role = "student" <=> (~OnList(last.email, last.admins) /\ InDomain(last.email))
        /\ last.role = "guest" <=> (~OnList(last.email, last.admins) /\ ~InDomain(last.email))

\* C13 witness: an address of the allowed domain written in upper case, which
\* is on the admin list in lower case, next to a second entry, resolved to admin.
C13_Witness ==
    /\ last.op = "create_user_with_role"
    /\ last.email = <<"Admin", "@", "POCHEONIL.HS.KR">>
    /\ Len(last.admins) = 2
    /\ last.admins[2] = <<"admin", "@", "pocheonil.hs.kr">>
    /\ last.role = "admin"

\* C14: the permission table is the same in every state: admin has exactly
\* its 7 permissions, student its 4, guest read_public_info, and there is no
\* other role; get_role_permissions returns the table's entry for a role and
\* the empty list for any other string.
C14_PermissionTable ==
    /\ DOMAIN ROLE_PERMISSIONS = {"admin", "student", "guest"}
    /\ ROLE_PERMISSIONS["admin"]
          = << "read_all_files", "upload_files", "delete_files", "manage_users",
               "view_submissions", "manage_subjects", "system_admin" >>
    /\ ROLE_PERMISSIONS["student"]
          = << "read_assigned_files", "download_files", "upload_submissions",
               "view_own_submissions" >>
    /\ ROLE_PERMISSIONS["guest"] = << "read_public_info" >>
    /\ last.op = "get_role_permissions" =>
          /\ last.role \in {"admin", "student", "guest"}
                => last.result = ROLE_PERMISSIONS[last.role]
          /\ last.role \notin {"admin", "student", "guest"} => last.result = <<>>

\* C14 witness: after the admin list has been changed, the permissions of a
\* string that is no role were asked for and the empty list came back.
C14_Witness ==
    /\ last.op = "get_role_permissions"
    /\ last.role = "teacher"
    /\ last.result = <<>>
    /\ ADMIN_EMAILS # InitialAdminEmails

\* C15: every successful exchange returns, in the response's user and in the
\* issued token's claims alike, the role of the user's address (admin when
\* the address is on the admin list, student otherwise, the address being of
\* the allowed domain) and the table's permissions for that role: 7 for admin,
\* 4 for student.
C15_ExchangeRole ==
    (last.op = "exchange" /\ last.response.ok) =>
        LET u == last.response.data.user
            p == last.response.data.jwt_token.payload
        IN  /\ InDomain(u.email)
            /\ u.role = IF OnList(u.email, last.admins) THEN "admin" ELSE "student"
            /\ u.permissions = ROLE_PERMISSIONS[u.role]
            /\ Len(u.permissions) = IF u.role = "admin" THEN 7 ELSE 4
            /\ p.role = u.role
            /\ p.permissions = u.permissions

\* C15 witness: a verified address of the domain that had been added to the
\* admin list got the admin role and its 7 permissions.
C15_Witness ==
    /\ last.op = "exchange"
    /\ last.response.ok
    /\ last.response.data.user.email = <<"student", "@", "pocheonil.hs.kr">>
    /\ OnList(<<"student", "@", "pocheonil.hs.kr">>, last.admins)
    /\ last.response.data.user.role = "admin"
    /\ Len(last.response.data.jwt_token.payload.permissions) = 7

\* Whether the exchange was of an accepted identity with a subject id and a
\* verified address outside the allowed domain and not on the admin list
OutsiderExchange ==
    /\ Accepted
    /\ ~LacksIdentity(last.answer.claims)
    /\ last.answer.claims.email_verified = Some(TRUE)
    /\ ~InDomain(last.answer.claims.email[1])
    /\ ~OnList(last.answer.claims.email[1], last.admins)

\* C16 as stated: the exchange of an accepted identity with a verified address
\* outside the allowed domain and not on the admin list yields the guest role
\* with its one permission.
C16_Original ==
    OutsiderExchange =>
        /\ last.response.ok
        /\ last.response.data.user.role = "guest"
        /\ last.response.data.user.permissions = << "read_public_info" >>

\* C16 amended: role resolution gives an address outside the allowed domain
\* and not on the admin list the guest role with its one permission; the
\* exchange of an accepted identity with such a verified address fails at
\* validation with the domain error and code UNAUTHORIZED, resolves no role and
\* issues no token.
C16_GuestOnlyByResolution ==
    /\ (last.op = "create_user_with_role"
          /\ ~InDomain(last.email) /\ ~OnList(last.email, last.admins)) =>
          /\ last.user.role = "guest"
          /\ last.user.permissions = << "read_public_info" >>
    /\ OutsiderExchange =>
          /\ ~last.response.ok
          /\ last.response.code = "UNAUTHORIZED"
          /\ last.user_info.error.text
                = "Email domain not allowed. Must be from @pocheonil.hs.kr"
          /\ last.steps = <<"validate_token">>

\* C16 witness: role resolution gave outsider@other.example the guest role.
C16_Witness ==
    /\ last.op = "create_user_with_role"
    /\ last.email = <<"outsider", "@", "other.example">>
    /\ ~OnList(last.email, last.admins)
    /\ last.user.role = "guest"
    /\ Len(last.user.permissions) = 1

\* Whether verification accepts the held token now
HeldValid == held # None /\ verify_access_token(held[1], now).ok

\* Whether verification rejects the held token now as expired
HeldExpired ==
    held # None /\ verify_access_token(held[1], now) = Raise(Message("Token has expired", {}))

\* C17: a token the client holds verifies at every time before its expiry and
\* fails as expired at every time from its expiry on, whatever exchanges,
\* refreshes and changes of the admin list have happened since it was issued;
\* no step other than the passage of time ends its validity, and once it has
\* failed as expired it fails as expired after every further step.
C17_ValidityOnlyTime ==
    /\ [](held # None =>
            /\ now < held[1].payload.exp * TicksPerSecond => HeldValid
            /\ now >= held[1].payload.exp * TicksPerSecond => HeldExpired)
    /\ [][ /\ (HeldValid /\ held' = held /\ now' = now) => HeldValid'
           /\ (HeldExpired /\ held' = held) => HeldExpired' ]_vars

\* C17 witness: the holder of an admin token whose address has since been
\* removed from the admin list refreshed it one tick before its expiry; a new
\* token was issued and the old one still verifies.
C17_Witness ==
    /\ held # None
    /\ held[1].payload.role = "admin"
    /\ ~OnList(held[1].payload.email, ADMIN_EMAILS)
    /\ last.op = "refresh"
    /\ last.token = held[1]
    /\ last.response.ok
    /\ last.response.data.jwt_token # held[1]
    /\ now = held[1].payload.exp * TicksPerSecond - 1
    /\ HeldValid

C20_WhoAmI ==
    last.op = "me" =>
        LET token  == last.token
            expiry == token = Genuine(token) /\ "exp" \in DOMAIN token.payload
                        /\ last.at >= token.payload.exp * TicksPerSecond
        IN  /\ last.response.ok <=> verify_access_token(token, last.at).ok
            /\ last.response.ok =>
                  /\ token = Genuine(token)
                  /\ last.response.data
                        = [ uid         |-> token.payload.sub,
                            email       |-> token.payload.email,
                            name        |-> Get(token.payload, "name", None),
                            role        |-> token.payload.role,
                            permissions |-> Get(token.payload, "permissions", <<>>),
                            expires_at  |-> token.payload.exp ]
            /\ expiry => (~last.response.ok /\ last.response.code = "TOKEN_EXPIRED")
            /\ (~expiry /\ ~last.response.ok) => last.response.code = "INVALID_TOKEN"
            /\ (token # Genuine(token)
                  \/ \E c \in {"sub", "email", "role", "iat"} : c \notin DOMAIN token.payload
                  \/ ForeignIssuer(token)) =>
                  (~last.response.ok
                     /\ (~expiry => last.response.code = "INVALID_TOKEN"))

\* C20 witness: me was asked with the held token in the second it expires and
\* answered TOKEN_EXPIRED.
C20_Witness ==
    /\ last.op = "me"
    /\ held # None
    /\ last.token = held[1]
    /\ last.at = last.token.payload.exp * TicksPerSecond
    /\ last.response.status_code = 401
    /\ last.response.code = "TOKEN_EXPIRED"

\* C19: refresh_token_if_needed, called with a token whose exp claim decodes,
\* returns a token newly issued for the user given (iat = now, exp = now + the
\* lifetime, in whole seconds, and the user's subject, e-mail, role and
\* permissions) exactly when exp - now is at most the threshold, and returns
\* None when exp - now is greater; signing is taken to succeed.
C19_RefreshIfNeeded ==
    (last.op = "refresh_token_if_needed" /\ last.token.wellformed
       /\ "exp" \in DOMAIN last.token.payload /\ last.signing = None) =>
        LET remaining == last.token.payload.exp * TicksPerSecond - last.at
            threshold == last.threshold * 3600 * TicksPerSecond
        IN  /\ last.result # None <=> remaining <= threshold
            /\ remaining > threshold => last.result = None
            /\ last.result # None =>
                  LET new == last.result[1].token.payload
                  IN  /\ new.iat = last.at \div TicksPerSecond
                      /\ new.exp = new.iat + ACCESS_TOKEN_EXPIRE_HOURS * 3600
                      /\ last.result[1].expires_at
                            = last.at + ACCESS_TOKEN_EXPIRE_HOURS * 3600 * TicksPerSecond
                      /\ new.sub = last.user.uid
                      /\ new.email = last.user.email
                      /\ new.role = last.user.role
                      /\ new.permissions = last.user.permissions
                      /\ verify_access_token(last.result[1].token, last.at).ok

\* C19 witness: the held token was presented at the time of its issue with a
\* threshold equal to its lifetime, so that exp - now is exactly the threshold,
\* and a new token came back.
C19_Witness ==
    /\ last.op = "refresh_token_if_needed"
    /\ held # None
    /\ last.token = held[1]
    /\ last.signing = None
    /\ last.threshold = ACCESS_TOKEN_EXPIRE_HOURS
    /\ last.token.payload.exp * TicksPerSecond - last.at
          = last.threshold * 3600 * TicksPerSecond
    /\ last.result # None

\* C21: when signing fails inside create_access_token during an exchange or
\* a refresh, the caller gets the code INTERNAL_ERROR, and none of
\* BAD_REQUEST, INVALID_TOKEN, UNAUTHORIZED.
C21_Original ==
    (last.op \in {"exchange", "refresh"}
       /\ ~last.response.ok
       /\ last.steps[Len(last.steps)] = "create_access_token") =>
        /\ last.response.code = "INTERNAL_ERROR"
        /\ last.response.status_code = 500

\* Whether list b is list a with the entry at position i taken out
RemovedAt(a, b, i) ==
    /\ Len(b) = Len(a) - 1
    /\ \A j \in DOMAIN b : b[j] = IF j < i THEN a[j] ELSE a[j + 1]

\* C22: add_admin_email of an address that is on the list in any letter case
\* leaves the list as it is, and of any other address appends it so that
\* is_admin_email holds of it; remove_admin_email of an address that is not on
\* the list returns False and leaves the list as it is, and of an address that
\* is on the list in any letter case takes that entry out, returns True, and
\* is_admin_email no longer holds of it.
C22_AdminListMutation ==
    /\ last.op = "add_admin_email" =>
          /\ OnList(last.email, last.admins) => ADMIN_EMAILS = last.admins
          /\ ~OnList(last.email, last.admins) =>
                /\ Len(ADMIN_EMAILS) = Len(last.admins) + 1
                /\ SubSeq(ADMIN_EMAILS, 1, Len(last.admins)) = last.admins
          /\ is_admin_email(last.email)
    /\ last.op = "remove_admin_email" =>
          /\ ~OnList(last.email, last.admins) =>
                (last.result = FALSE /\ ADMIN_EMAILS = last.admins)
          /\ OnList(last.email, last.admins) =>
                /\ last.result = TRUE
                /\ \E i \in DOMAIN last.admins :
                      /\ Lower(last.admins[i]) = Lower(last.email)
                      /\ RemovedAt(last.admins, ADMIN_EMAILS, i)
                /\ ~is_admin_email(last.email)

\* C22 witness: an address written in upper case, on the list in lower case
\* behind another entry, was removed.
C22_Witness ==
    /\ last.op = "remove_admin_email"
    /\ last.email = <<"Admin", "@", "POCHEONIL.HS.KR">>
    /\ Len(last.admins) = 2
    /\ last.admins[2] = <<"admin", "@", "pocheonil.hs.kr">>
    /\ last.result = TRUE
    /\ Len(ADMIN_EMAILS) = 1

\* C25: when the claims of an accepted token fail more than one check,
\* validation reports the first failing one in the order: subject id, e-mail,
\* email_verified, domain.
C25_FirstFailingCheck ==
    (Accepted /\ ~last.user_info.ok) =>
        LET claims == last.answer.claims
            text   == last.user_info.error.text
        IN  IF claims.uid \in {None, Some("")}
            THEN text = "Token validation failed: Token does not contain user ID"
            ELSE IF claims.email \in {None, Some(<<>>)}
            THEN text = "Token validation failed: Token does not contain email"
            ELSE IF claims.email_verified # Some(TRUE)
            THEN text = "Email address is not verified"
            ELSE /\ ~InDomain(claims.email[1])
                 /\ text = "Email domain not allowed. Must be from @pocheonil.hs.kr"

\* C25 witness: claims without an e-mail and with email_verified false were
\* refused for the missing e-mail.
C25_Witness ==
    /\ Accepted
    /\ last.answer.claims.uid = Some("u1")
    /\ last.answer.claims.email = None
    /\ last.answer.claims.email_verified = Some(FALSE)
    /\ last.user_info.error.text = "Token validation failed: Token does not contain email"

\* C26: with DEBUG on, validation returns the mock identity (uid
\* dev_user_123, admin@pocheonil.hs.kr, verified) for any token without asking
\* the provider, and the exchange succeeds.
C26_Original ==
    (last.op = "exchange" /\ DEBUG) =>
        /\ ~last.provider_called
        /\ last.user_info.ok
        /\ last.user_info.value.uid = "dev_user_123"
        /\ last.user_info.value.email = <<"admin", "@", "pocheonil.hs.kr">>
        /\ last.user_info.value.email_verified = TRUE
        /\ last.response.ok

\* C27: the refresh of a token verification accepts copies the role and the
\* permissions of the presented token whatever the admin list holds: the holder
\* of an unexpired admin token whose address has been removed from the list
\* gets a new admin token that verifies and expires later than now, so that
\* refreshing before each expiry keeps a valid admin token without end.
C27_RefreshKeepsRole ==
    (last.op = "refresh" /\ last.verified.ok) =>
        /\ last.response.ok
        /\ LET old == last.token.payload
               new == last.response.data.jwt_token.payload
           IN  /\ new.role = old.role
               /\ new.permissions = old.permissions
               /\ last.response.data.user.role = old.role
               /\ verify_access_token(last.response.data.jwt_token, last.at).ok
               /\ new.exp * TicksPerSecond > last.at
               /\ new.exp >= old.exp

\* C27 witness: after the administrator's address left the list and more than
\* the lifetime of the first token has passed, a refresh of the held token,
\* itself got by a refresh, gave a new admin token.
C27_Witness ==
    /\ last.op = "refresh"
    /\ last.response.ok
    /\ last.at >= expiry_of(0)
    /\ last.token.payload.role = "admin"
    /\ ADMIN_EMAILS = <<>>
    /\ last.response.data.jwt_token.payload.role = "admin"
    /\ Len(last.response.data.jwt_token.payload.permissions) = 7

\* C28: refresh_token_if_needed does not verify the token it is given:
\* whenever the exp claim decodes and is at most now + threshold, also for a
\* token that has expired or whose signature is not the secret's, and signing
\* succeeds, it returns a new token for the user given that verification
\* accepts; it returns None when exp does not decode or signing fails.
C28_RefreshIfNeededUnverified ==
    last.op = "refresh_token_if_needed" =>
        LET decodes == last.token.wellformed /\ "exp" \in DOMAIN last.token.payload
        IN  /\ (decodes /\ last.signing = None
                  /\ last.token.payload.exp * TicksPerSecond
                        <= last.at + last.threshold * 3600 * TicksPerSecond) =>
                  /\ last.result # None
                  /\ verify_access_token(last.result[1].token, last.at).ok
                  /\ last.result[1].token.payload.sub = last.user.uid
                  /\ last.result[1].token.payload.email = last.user.email
                  /\ last.result[1].token.payload.role = last.user.role
            /\ (~decodes \/ last.signing # None) => last.result = None

\* C28 witness: an expired token whose signature was made with another key
\* was exchanged for a new token.
C28_Witness ==
    /\ last.op = "refresh_token_if_needed"
    /\ last.token.signature.key = "other-key"
    /\ last.token.payload.exp * TicksPerSecond <= last.at
    /\ ~verify_access_token(last.token, last.at).ok
    /\ last.threshold = 0
    /\ last.result # None

\* C29: every successful refresh returns a token whose exp is at least the
\* exp of the token presented, and an expiry at least that exp.
C29_ExpiryNeverDecreases ==
    (last.op = "refresh" /\ last.response.ok) =>
        /\ last.response.data.jwt_token.payload.exp >= last.token.payload.exp
        /\ last.response.data.expires_at >= last.token.payload.exp * TicksPerSecond

\* C29 witness: a token issued after the start was refreshed later still and
\* the new token expires after the old one.
C29_Witness ==
    /\ last.op = "refresh"
    /\ last.response.ok
    /\ last.token.payload.iat > 0
    /\ last.at > last.token.payload.iat * TicksPerSecond + 1
    /\ last.response.data.jwt_token.payload.exp > last.token.payload.exp

\* Whether no two entries of the list are equal ignoring case
NoCaseDuplicates(admins) ==
    \A i, j \in DOMAIN admins : i # j => Lower(admins[i]) # Lower(admins[j])

\* C30: after any sequence of add_admin_email and remove_admin_email calls the
\* admin list has no two entries equal ignoring case; after remove_admin_email
\* has returned True is_admin_email is false of the address; an exchange yields
\* the admin role only for an address on the list at that time, and an address
\* that is not on the list comes onto it only by add_admin_email of it.
C30_NoCaseDuplicates ==
    /\ [](/\ NoCaseDuplicates(ADMIN_EMAILS)
          /\ (last.op = "remove_admin_email" /\ last.result) => ~is_admin_email(last.email)
          /\ (last.op = "exchange" /\ last.response.ok
                /\ last.response.data.user.role = "admin")
                => OnList(last.response.data.user.email, last.admins))
    /\ [][ \A e \in Emails :
              (~is_admin_email(e) /\ is_admin_email(e)') =>
                  (last'.op = "add_admin_email" /\ Lower(last'.email) = Lower(e)) ]_vars

\* C30 witness: an address that had been added to a list of three was
\* removed again.
C30_Witness ==
    /\ last.op = "remove_admin_email"
    /\ last.email = <<"student", "@", "pocheonil.hs.kr">>
    /\ Len(last.admins) = 3
    /\ last.result
    /\ NoCaseDuplicates(last.admins)
    /\ ~is_admin_email(last.email)

----------------------------------------------------------------------------
\* The outcome of one call made alone on the list admins: the list afterwards
\* and the value returned
SerialStep(admins, call) ==
    LET first == CHOOSE i \in DOMAIN admins :
                     /\ Lower(admins[i]) = Lower(call.email)
                     /\ \A j \in 1..(i - 1) : Lower(admins[j]) # Lower(call.email)
    IN  CASE call.op = "add_admin_email" ->
                [ list   |-> IF OnList(call.email, admins) THEN admins
                             ELSE Append(admins, Lower(call.email)),
                  result |-> None ]
          [] call.op = "remove_admin_email" ->
                IF OnList(call.email, admins)
                THEN [ list   |-> SubSeq(admins, 1, first - 1)
                                     \o SubSeq(admins, first + 1, Len(admins)),
                       result |-> TRUE ]
                ELSE [list |-> admins, result |-> FALSE]
          [] OTHER ->
                [ list   |-> admins,
                  result |-> IF OnList(call.email, admins) THEN ADMIN
                             ELSE IF InDomain(call.email) THEN STUDENT ELSE GUEST ]

\* Whether the threads' calls, made one after the other in this order from
\* the list admins, return what the threads got and end with the admin list
RECURSIVE SerialRun(_, _)
SerialRun(admins, order) ==
    IF order = <<>> THEN admins = ADMIN_EMAILS
    ELSE LET r == SerialStep(admins, threads[Head(order)])
         IN  /\ r.result = threads[Head(order)].result
             /\ SerialRun(r.list, Tail(order))

\* The threads whose call has returned, in every order
Orders ==
    LET called == {t \in Threads : threads[t].pc = "done"}
    IN  { o \in [1..Cardinality(called) -> called] :
            \A i, j \in DOMAIN o : i # j => o[i] # o[j] }

\* C23 as stated: once the concurrent calls of add_admin_email,
\* remove_admin_email and role resolution have returned, some order of them,
\* made one after the other from the list they started from, gives each call
\* the value it returned and ends with the admin list as it is; and the
\* admin list has no two entries equal ignoring case.
C23_Original ==
    (\A t \in Threads : threads[t].pc \in {"idle", "done"}) =>
        /\ \E o \in Orders : SerialRun(Base, o)
        /\ NoCaseDuplicates(ADMIN_EMAILS)

====
